---- MODULE Spec2Model ----
(***************************************************************************)
(* Timer-driven ADC sampler firmware (ADC_ttgo-t-display.ino).             *)
(*                                                                         *)
(* A hardware alarm calls onTimer once per period.  onTimer reads every    *)
(* configured channel into sensorValue and prints the buffer as one text   *)
(* line on the serial port; setup arms the alarm; loop idles.              *)
(*                                                                         *)
(* Arrays are functions over 0..N-1, so indices are the C indices.  Bytes  *)
(* are ASCII codes.                                                        *)
(***************************************************************************)
EXTENDS Integers, Sequences, FiniteSets, TLC

(* ------------------------------ bounds -------------------------------- *)

\* Longest channel list of a build that the model enumerates.
MaxChannels == 3

\* Bytes the serial transmit queue holds before a write blocks.
TxCapacity == 2

\* Longest channel list of a build in the fair specification.
FairChannels == 2

\* Bytes the serial port holds received and unread; the host sends no more
\* while it is full.
RxCapacity == 2

(* ------------------------ program constants --------------------------- *)

\* #define BAUDRATE 115200
ShippedBaudrate == 115200

\* #define MICROSECONDS_BETWEEN_SAMPLES 100000
ShippedInterval == 100000

\* timerBegin(1000000): the timer counts microseconds.
TimerFrequency == 1000000

\* timerAlarm(timer, ..., true, 0): the alarm reloads itself.
AutoReloadOff == FALSE

AutoReload == TRUE

\* Serial.begin(BAUDRATE) frames a byte as 8N1: start bit, 8 data bits,
\* stop bit.
BitsPerFrame == 10

\* ASCII codes of the bytes the handler prints.
SP == 32
CR == 13
LF == 10
MINUS == 45
ZERO == 48

(* ---------------------------- environment ----------------------------- *)

\* Values a channel read may return.  sensorValue is an int array and
\* Serial.print(int) is signed, so the set holds a negative value next to
\* one-, two-, three- and four-digit ones (4095 is the 12-bit maximum).
Readings == {-3, 10, 255, 4095}

\* What a read outside the buffer may yield (sensorValue[-1] when the
\* channel list is empty): any int; these stand for them.
Garbage == {-7, 0, 31}

\* channels[] of a build with n channels: the first n pins of the
\* four-channel build { 2, 15, 13, 12 }.
Pin(k) == CASE k = 0 -> 2 [] k = 1 -> 15 [] k = 2 -> 13 [] k = 3 -> 12
            [] OTHER -> 32 + k

ChannelList(n) == [k \in 0 .. n - 1 |-> Pin(k)]

(* ------------------------------ state --------------------------------- *)

VARIABLES
    channels,                     \* uint8_t channels[]
    number_of_channels,           \* int number_of_channels
    BAUDRATE,                     \* #define BAUDRATE
    MICROSECONDS_BETWEEN_SAMPLES, \* #define MICROSECONDS_BETWEEN_SAMPLES
    analogReadTime,               \* microseconds one analogRead call takes
    sensorValue,                  \* int* sensorValue
    new_sample,                   \* short new_sample
    serial,                       \* Serial: begun and at which rate
    timer,                        \* hw_timer_t* timer and its alarm
    pc,                           \* main context: "setup", "loop", "delay"
    hpc,                          \* onTimer: "idle", "read", "val", "sep",
                                  \*          "last", "eol"; the start/stop
                                  \*          build also "drain" and "test"
    i,                            \* loop index of onTimer
    out,                          \* bytes of the running print call that the
                                  \* transport has not accepted yet
    irqPending,                   \* alarm interrupt latched, not yet served
    txq,                          \* transmit queue of the serial transport
    line,                         \* history: bytes handed over by the
                                  \* current (or last) onTimer invocation
    prevLine,                     \* history: line of the invocation before,
                                  \* kept while the readings repeat
    lastRead,                     \* history: last value read per channel
    steady,                       \* history: every read of this invocation
                                  \* so far repeated the previous one
    completed,                    \* history: some invocation has returned
    late,                         \* history: an alarm found the handler
                                  \* still running or an interrupt pending
    missed,                       \* history: an alarm was merged into an
                                  \* interrupt already pending (dropped)
    toAlarm,                      \* time until the next alarm
    toByte,                       \* time until the byte on the wire is out
    toRead,                       \* time until the running analogRead is done
    reads,                        \* history: the analogRead calls of the
                                  \* current (or last) invocation, in order
    SendData,                     \* bool SendData (start/stop build)
    rxq,                          \* bytes received on the serial port and not
                                  \* read yet (start/stop build)
    lastCmd                       \* history: the last 's' or 'e' that
                                  \* serialEvent has read, "none" before

config == <<channels, number_of_channels, BAUDRATE,
            MICROSECONDS_BETWEEN_SAMPLES, analogReadTime>>
handler == <<hpc, i, out>>
history == <<line, prevLine, lastRead, steady, completed, reads>>
input == <<SendData, rxq, lastCmd>>
clocks == <<toAlarm, toByte, toRead>>

vars == <<channels, number_of_channels, BAUDRATE,
          MICROSECONDS_BETWEEN_SAMPLES, analogReadTime, sensorValue,
          new_sample, serial, timer, pc, hpc, i, out, irqPending, txq, line,
          prevLine, lastRead, steady, completed, late, missed, toAlarm,
          toByte, toRead, reads, SendData, rxq, lastCmd>>

(* --------------------------- pure helpers ----------------------------- *)

\* sizeof(channels): one byte per uint8_t entry.
SizeofChannels(ch) == Cardinality(DOMAIN ch)

\* Number of slots of a buffer.
Slots(buf) == Cardinality(DOMAIN buf)

\* malloc(n * sizeof(int)): n int slots.  The contents are indeterminate;
\* no slot of 0..n-1 is read before onTimer has stored into it.
MallocOneLess(n) == [k \in 0 .. n - 2 |-> 0]

Malloc(n) == [k \in 0 .. n - 1 |-> 0]

\* sensorValue[k] = v
StoreAccumulate(buf, k, v) == [buf EXCEPT ![k] = @ + v]

StoreFirst(buf, k, v) == [buf EXCEPT ![0] = v]

StoreSample(buf, k, v) == [buf EXCEPT ![k] = v]

\* The values a read of sensorValue[k] may yield: the slot, or anything
\* when k is outside the buffer.
Fetch(buf, k) == IF k \in DOMAIN buf THEN {buf[k]} ELSE Garbage

\* Print::printNumber(n, 10) for n >= 0: the decimal digits, most
\* significant first, at least one.
RECURSIVE PrintNumber(_)
PrintNumber(n) ==
    IF n < 10 THEN <<ZERO + n>>
    ELSE Append(PrintNumber(n \div 10), ZERO + (n % 10))

\* Serial.print(int): a minus sign for a negative value, then the digits.
PrintIntUnsigned(n) == PrintNumber(IF n < 0 THEN -n ELSE n)

PrintInt(n) == IF n < 0 THEN <<MINUS>> \o PrintNumber(-n) ELSE PrintNumber(n)

\* Serial.print(" ")
SeparatorDouble == <<SP, SP>>

Separator == <<SP>>

\* Print::println(): carriage return, line feed.
EndOfLineSpace == <<SP, CR, LF>>

EndOfLine == <<CR, LF>>

(* ----------------------- onTimer's control flow ----------------------- *)

\* Second loop's test: i < number_of_channels - 1 prints value i and a
\* separator, otherwise the println of the last slot follows.
PrintPosAll(k, n) == IF k < n THEN [hpc |-> "val", i |-> k]
                     ELSE [hpc |-> "last", i |-> n - 1]

PrintPos(k, n) == IF k < n - 1 THEN [hpc |-> "val", i |-> k]
                  ELSE [hpc |-> "last", i |-> n - 1]

\* First loop's test: i < number_of_channels reads channel i, otherwise the
\* second loop starts.
ReadPos(k, n) == IF k < n THEN [hpc |-> "read", i |-> k] ELSE PrintPos(0, n)

\* The bytes the call at position p hands to the transport, given the
\* buffer: Serial.print(sensorValue[i]), Serial.print(" "), and the two
\* halves of Serial.println(sensorValue[N-1]).
CallBytes(p, buf) ==
    CASE p.hpc \in {"val", "last"} -> {PrintInt(x) : x \in Fetch(buf, p.i)}
      [] p.hpc = "sep" -> {Separator}
      [] p.hpc = "eol" -> {EndOfLine}
      [] OTHER -> {<<>>}

\* Where onTimer continues once the call at <<h, k>> is done.
AfterCall(h, k, n) ==
    CASE h = "val" -> [hpc |-> "sep", i |-> k]
      [] h = "sep" -> PrintPos(k + 1, n)
      [] h = "last" -> [hpc |-> "eol", i |-> k]
      [] OTHER -> [hpc |-> "idle", i |-> 0]

\* Move the handler to position p, loading the bytes of its call.
Goto(p, buf) ==
    /\ hpc' = p.hpc
    /\ i' = p.i
    /\ out' \in CallBytes(p, buf)

(* ------------------------------ Init ---------------------------------- *)

\* State after the static initialisers of a build with channel list ch,
\* baud rate baud and sampling interval us, on hardware whose analogRead
\* takes adc microseconds.
Build(ch, baud, us, adc) ==
    /\ channels = ch
    /\ number_of_channels = SizeofChannels(ch)
    /\ BAUDRATE = baud
    /\ MICROSECONDS_BETWEEN_SAMPLES = us
    /\ analogReadTime = adc
    /\ sensorValue = Malloc(SizeofChannels(ch))
    /\ new_sample = 0
    /\ serial = [begun |-> FALSE, baud |-> 0]
    /\ timer = [handle |-> "NULL", frequency |-> 0, isr |-> "none",
                armed |-> FALSE, alarm_value |-> 0, autoreload |-> FALSE,
                reload_count |-> 0]
    /\ pc = "setup"
    /\ hpc = "idle"
    /\ i = 0
    /\ out = <<>>
    /\ irqPending = FALSE
    /\ txq = <<>>
    /\ line = <<>>
    /\ prevLine = <<>>
    /\ lastRead = [k \in DOMAIN ch |-> 0]
    /\ steady = FALSE
    /\ completed = FALSE
    /\ late = FALSE
    /\ missed = FALSE
    /\ toAlarm = 0
    /\ toByte = 0
    /\ toRead = 0
    /\ reads = <<>>
    /\ SendData = FALSE
    /\ rxq = <<>>
    /\ lastCmd = "none"

\* Builds with a valid configuration: one to MaxChannels channels, the
\* shipped interval.
Init ==
    \E n \in 1 .. MaxChannels :
        Build(ChannelList(n), ShippedBaudrate, ShippedInterval, 0)

(* ----------------------------- actions -------------------------------- *)

\* setup(): Serial.begin, delay(400), timerBegin, timerAttachInterrupt,
\* timerAlarm.  Nothing can interrupt it in a way the program sees: the
\* alarm is armed by its last statement.
SetupCore ==
    /\ pc = "setup"
    /\ serial' = [begun |-> TRUE, baud |-> BAUDRATE]
    /\ timer' = [handle |-> "timer", frequency |-> TimerFrequency,
                 isr |-> "onTimer", armed |-> TRUE,
                 alarm_value |-> MICROSECONDS_BETWEEN_SAMPLES,
                 autoreload |-> AutoReload, reload_count |-> 0]
    /\ pc' = "loop"
    /\ UNCHANGED <<input, config, sensorValue, new_sample, handler,
                   irqPending, txq, history, late, missed>>

\* The main context runs only while no interrupt is being served or
\* waiting to be served.
MainContextAlways == TRUE

MainContextRuns == hpc = "idle" /\ ~irqPending

\* The interrupt is masked while its handler runs: onTimer is entered only
\* when no invocation of it is running.
CanEnterNested == TRUE

CanEnter == hpc = "idle"

\* loop(): calls delay(1).
LoopCoreSampling ==
    /\ pc = "loop"
    /\ MainContextRuns
    /\ pc' = "delay"
    /\ sensorValue' = [sensorValue EXCEPT ![0] = 0]
    /\ UNCHANGED <<input, config, new_sample, serial, timer, handler,
                   irqPending, txq, history, late, missed>>

LoopCore ==
    /\ pc = "loop"
    /\ MainContextRuns
    /\ pc' = "delay"
    /\ UNCHANGED <<input, config, sensorValue, new_sample, serial, timer,
                   handler, irqPending, txq, history, late, missed>>

\* delay(1) returns and loop() returns to its caller, which calls it again.
DelayCore ==
    /\ pc = "delay"
    /\ MainContextRuns
    /\ pc' = "loop"
    /\ UNCHANGED <<input, config, sensorValue, new_sample, serial, timer,
                   handler, irqPending, txq, history, late, missed>>

\* The alarm: the counter reached alarm_value.  With autoreload the counter
\* restarts from reload_count and the alarm stays armed.  The interrupt is
\* latched; an alarm that finds it still latched is merged into it.
AlarmCore ==
    /\ timer.armed
    /\ timer.isr = "onTimer"
    /\ irqPending' = TRUE
    /\ timer' = [timer EXCEPT !.armed = timer.autoreload]
    /\ late' = (late \/ irqPending \/ hpc # "idle")
    /\ missed' = (missed \/ irqPending)
    /\ UNCHANGED <<input, config, sensorValue, new_sample, serial, pc,
                   handler, txq, history>>

\* The latched interrupt is served: onTimer is entered.  It is not
\* re-entered while it runs.
EnterCore ==
    /\ irqPending
    /\ CanEnter
    /\ irqPending' = FALSE
    /\ Goto(ReadPos(0, number_of_channels), sensorValue)
    /\ line' = <<>>
    /\ reads' = <<>>
    /\ steady' = completed
    /\ prevLine' = IF completed THEN line ELSE <<>>
    /\ UNCHANGED <<input, config, sensorValue, new_sample, serial, timer,
                   pc, txq, lastRead, completed, late, missed>>

\* sensorValue[i] = analogRead(channels[i]); i++
ReadCore ==
    /\ hpc = "read"
    /\ \E v \in Readings :
          /\ sensorValue' = StoreSample(sensorValue, i, v)
          /\ lastRead' = [lastRead EXCEPT ![i] = v]
          /\ reads' = Append(reads, [pin |-> channels[i], value |-> v])
          /\ steady' = (steady /\ v = lastRead[i])
          /\ prevLine' = IF steady /\ v = lastRead[i] THEN prevLine ELSE <<>>
    /\ Goto(ReadPos(i + 1, number_of_channels), sensorValue')
    /\ UNCHANGED <<input, config, new_sample, serial, timer, pc,
                   irqPending, txq, line, completed, late, missed>>

\* One byte of the running print call is accepted by the transport.  The
\* call blocks while the queue is full; when its last byte is accepted the
\* handler goes on to the next call, or returns after the println.
WriteCore ==
    /\ hpc \in {"val", "sep", "last", "eol"}
    /\ out # <<>>
    /\ Len(txq) < TxCapacity
    /\ txq' = Append(txq, Head(out))
    /\ line' = Append(line, Head(out))
    /\ IF Tail(out) # <<>>
       THEN /\ out' = Tail(out)
            /\ UNCHANGED <<hpc, i>>
       ELSE Goto(AfterCall(hpc, i, number_of_channels), sensorValue)
    /\ completed' = (completed \/ (hpc = "eol" /\ Tail(out) = <<>>))
    /\ UNCHANGED <<input, config, sensorValue, new_sample, serial, timer,
                   pc, irqPending, prevLine, lastRead, steady, reads, late,
                   missed>>

\* The UART has shifted out the byte at the head of the queue.
DrainCore ==
    /\ txq # <<>>
    /\ txq' = Tail(txq)
    /\ UNCHANGED <<input, config, sensorValue, new_sample, serial, timer, pc,
                   handler, irqPending, history, late, missed>>

(* ------------------- untimed specification (Spec) --------------------- *)
\* Alarms and drains may come at any moment: every timing of every rate.

Setup == SetupCore /\ UNCHANGED clocks
Loop == LoopCore /\ UNCHANGED clocks
DelayReturn == DelayCore /\ UNCHANGED clocks
TimerAlarm == AlarmCore /\ UNCHANGED clocks
OnTimerEnter == EnterCore /\ UNCHANGED clocks
OnTimerRead == ReadCore /\ UNCHANGED clocks
OnTimerWrite == WriteCore /\ UNCHANGED clocks
TxDrain == DrainCore /\ UNCHANGED clocks

Next ==
    \/ Setup
    \/ Loop
    \/ DelayReturn
    \/ TimerAlarm
    \/ OnTimerEnter
    \/ OnTimerRead
    \/ OnTimerWrite
    \/ TxDrain

Spec == Init /\ [][Next]_vars

(* -------------------- timed specification (TimedSpec) ----------------- *)
\* Time is counted in units of 100 / BAUDRATE microseconds, which makes a
\* microsecond BAUDRATE / 100 units and a bit 10000 units whatever the
\* rate.  The alarm comes every MICROSECONDS_BETWEEN_SAMPLES, a byte leaves
\* the queue every BitsPerFrame bit times, a channel read takes
\* analogReadTime, and the handler's other statements take no time.

Ticks(us) == us * (BAUDRATE \div 100)

Period == Ticks(MICROSECONDS_BETWEEN_SAMPLES)

ByteTime == BitsPerFrame * (TimerFrequency \div 100)

\* The shipped firmware builds: channels, baud rate, alarm period in
\* microseconds.  One channel at 115200 baud every 100 ms; two channels at
\* 115200 baud, four at 921600 baud and (the start/stop build) one at
\* 115200 baud, every millisecond.
ShippedBuildsSlow ==
    { <<1, 115200, 100000>>,
      <<2, 57600, 1000>>,
      <<4, 921600, 1000>>,
      <<1, 115200, 1000>> }

ShippedBuilds ==
    { <<1, 115200, 100000>>,
      <<2, 115200, 1000>>,
      <<4, 921600, 1000>>,
      <<1, 115200, 1000>> }

\* Builds the timed specification runs: channels, baud rate, interval and
\* read time.  The shipped builds, and others that put other standard
\* rates on the 1 ms interval.
TimedBuilds ==
    { <<b[1], b[2], b[3], 20>> : b \in ShippedBuilds } \cup
    { <<2, 115200, 1000, 40>>,
      <<1, 57600, 1000, 0>>,
      <<2, 9600, 1000, 20>>,
      <<1, 9600, 1000, 0>> }

TimedInit ==
    \E b \in TimedBuilds : Build(ChannelList(b[1]), b[2], b[3], b[4])

\* The handler has a statement it can execute now.
HandlerCanStep ==
    \/ hpc = "read" /\ toRead = 0
    \/ hpc \in {"val", "sep", "last", "eol"} /\ Len(txq) < TxCapacity

\* The clocks that are running.
Running ==
    (IF timer.armed THEN {toAlarm} ELSE {})
        \cup (IF txq # <<>> THEN {toByte} ELSE {})
        \cup (IF hpc = "read" THEN {toRead} ELSE {})

Least(S) == CHOOSE d \in S : \A e \in S : d <= e

\* Starting the read the handler is at, if it is at one.
StartRead == toRead' = IF hpc' = "read" THEN Ticks(analogReadTime) ELSE 0

TimedSetup ==
    /\ SetupCore
    /\ toAlarm' = Period
    /\ UNCHANGED <<toByte, toRead>>

TimedLoop == LoopCore /\ UNCHANGED clocks

TimedDelayReturn == DelayCore /\ UNCHANGED clocks

TimedTimerAlarm ==
    /\ toAlarm = 0
    /\ AlarmCore
    /\ toAlarm' = IF timer'.armed THEN Period ELSE 0
    /\ UNCHANGED <<toByte, toRead>>

TimedOnTimerEnter ==
    /\ EnterCore
    /\ StartRead
    /\ UNCHANGED <<toAlarm, toByte>>

TimedOnTimerRead ==
    /\ toRead = 0
    /\ ReadCore
    /\ StartRead
    /\ UNCHANGED <<toAlarm, toByte>>

TimedOnTimerWrite ==
    /\ WriteCore
    /\ toByte' = IF txq = <<>> THEN ByteTime ELSE toByte
    /\ UNCHANGED <<toAlarm, toRead>>

TimedTxDrain ==
    /\ toByte = 0
    /\ DrainCore
    /\ toByte' = IF txq' # <<>> THEN ByteTime ELSE 0
    /\ UNCHANGED <<toAlarm, toRead>>

\* Time passes until the next clock runs out, while the processor has
\* nothing it can do at once.
Tick ==
    /\ pc # "setup"
    /\ ~HandlerCanStep
    /\ ~(irqPending /\ hpc = "idle")
    /\ Running # {}
    /\ \A d \in Running : d > 0
    /\ LET d == Least(Running)
       IN  /\ toAlarm' = IF timer.armed THEN toAlarm - d ELSE toAlarm
           /\ toByte' = IF txq # <<>> THEN toByte - d ELSE toByte
           /\ toRead' = IF hpc = "read" THEN toRead - d ELSE toRead
    /\ UNCHANGED <<input, config, sensorValue, new_sample, serial, timer, pc,
                   handler, irqPending, txq, history, late, missed>>

TimedNext ==
    \/ TimedSetup
    \/ TimedLoop
    \/ TimedDelayReturn
    \/ TimedTimerAlarm
    \/ TimedOnTimerEnter
    \/ TimedOnTimerRead
    \/ TimedOnTimerWrite
    \/ TimedTxDrain
    \/ Tick

TimedSpec == TimedInit /\ [][TimedNext]_vars

(* ----------------- fair untimed specification (FairSpec) -------------- *)
\* The timer keeps counting, the processor keeps executing the handler it
\* has entered, and the UART keeps shifting out what is queued.
FairInit ==
    \E n \in 1 .. FairChannels :
        Build(ChannelList(n), ShippedBaudrate, ShippedInterval, 0)

FairSpec ==
    /\ FairInit
    /\ [][Next]_vars
    /\ WF_vars(Setup)
    /\ WF_vars(TimerAlarm)
    /\ WF_vars(OnTimerEnter)
    /\ WF_vars(OnTimerRead)
    /\ WF_vars(OnTimerWrite)
    /\ WF_vars(TxDrain)

(* ---------------- misconfigured builds (MisconfiguredSpec) ------------ *)
\* Builds whose configuration the data model excludes: an empty channel
\* list, or a sampling interval that is not positive.  A negative interval
\* reaches timerAlarm as its uint64_t conversion, a count the timer arms
\* like any other.
MisconfiguredInit ==
    \E n \in 0 .. MaxChannels, us \in {-1000, ShippedInterval} :
        /\ n = 0 \/ us <= 0
        /\ Build(ChannelList(n), ShippedBaudrate, us, 0)

MisconfiguredSpec == MisconfiguredInit /\ [][Next]_vars

(* --------------- the start/stop build (VariantSpec) ------------------- *)
\* The build whose onTimer calls serialEvent first and samples only while
\* SendData is set: one channel, A0, 115200 baud, an alarm every 1000
\* microseconds.

VariantBaudrate == 115200

VariantInterval == 1000

VariantChannels == [k \in 0 .. 0 |-> "A0"]

\* The command characters of serialEvent's switch.
CharS == 115

CharE == 101

\* Bytes the host may send: the two commands, and 'x' for any other byte.
InputBytes == {CharS, CharE, 120}

\* The switch of serialEvent: SendData after inChar has been read.
CommandDefaultOff(inChar, send) == inChar = CharS

Command(inChar, send) ==
    CASE inChar = CharS -> TRUE
      [] inChar = CharE -> FALSE
      [] OTHER -> send

\* if(SendData): the first loop starts, otherwise onTimer returns.
AfterSerialEventAlways(send, n) == ReadPos(0, n)

AfterSerialEvent(send, n) ==
    IF send THEN ReadPos(0, n) ELSE [hpc |-> "idle", i |-> 0]

VariantInit ==
    Build(VariantChannels, VariantBaudrate, VariantInterval, 0)

\* The latched interrupt is served: onTimer is entered and calls
\* serialEvent.
VariantEnter ==
    /\ irqPending
    /\ CanEnter
    /\ irqPending' = FALSE
    /\ hpc' = "drain"
    /\ line' = <<>>
    /\ reads' = <<>>
    /\ steady' = FALSE
    /\ prevLine' = <<>>
    /\ UNCHANGED <<input, config, sensorValue, new_sample, serial, timer,
                   pc, i, out, txq, lastRead, completed, late, missed,
                   clocks>>

\* serialEvent: Serial.available() is non-zero; Serial.read() takes the
\* oldest byte and the switch acts on it.
SerialEventRead ==
    /\ hpc = "drain"
    /\ rxq # <<>>
    /\ rxq' = Tail(rxq)
    /\ SendData' = Command(Head(rxq), SendData)
    /\ lastCmd' = IF Head(rxq) = CharS THEN "s"
                  ELSE IF Head(rxq) = CharE THEN "e"
                  ELSE lastCmd
    /\ UNCHANGED <<config, sensorValue, new_sample, serial, timer, pc,
                   handler, irqPending, txq, history, late, missed, clocks>>

\* serialEvent: Serial.available() is zero; the loop ends and serialEvent
\* returns to onTimer.
SerialEventReturn ==
    /\ hpc = "drain"
    /\ rxq = <<>>
    /\ hpc' = "test"
    /\ UNCHANGED <<input, config, sensorValue, new_sample, serial, timer,
                   pc, i, out, irqPending, txq, history, late, missed,
                   clocks>>

\* if(SendData)
SendDataTest ==
    /\ hpc = "test"
    /\ Goto(AfterSerialEvent(SendData, number_of_channels), sensorValue)
    /\ UNCHANGED <<input, config, sensorValue, new_sample, serial, timer,
                   pc, irqPending, txq, history, late, missed, clocks>>

\* The host sends a byte; the serial port, once begun, receives it whatever
\* the processor is doing.
HostSend ==
    /\ serial.begun
    /\ Len(rxq) < RxCapacity
    /\ \E b \in InputBytes : rxq' = Append(rxq, b)
    /\ UNCHANGED <<SendData, lastCmd, config, sensorValue, new_sample,
                   serial, timer, pc, handler, irqPending, txq, history,
                   late, missed, clocks>>

VariantNext ==
    \/ Setup
    \/ Loop
    \/ DelayReturn
    \/ TimerAlarm
    \/ VariantEnter
    \/ SerialEventRead
    \/ SerialEventReturn
    \/ SendDataTest
    \/ OnTimerRead
    \/ OnTimerWrite
    \/ TxDrain
    \/ HostSend

VariantSpec == VariantInit /\ [][VariantNext]_vars

(* ------------------------ reading a line back ------------------------- *)

Range(s) == {s[k] : k \in DOMAIN s}

\* The fields of a byte string split at every space: "a b" has two,
\* "a  b" three (the middle one empty), "" one (empty).
RECURSIVE Fields(_)
Fields(s) ==
    IF \A k \in DOMAIN s : s[k] # SP THEN <<s>>
    ELSE LET first == CHOOSE k \in DOMAIN s :
                          /\ s[k] = SP
                          /\ \A j \in 1 .. k - 1 : s[j] # SP
         IN  <<SubSeq(s, 1, first - 1)>>
                 \o Fields(SubSeq(s, first + 1, Len(s)))

IsDigit(b) == b \in ZERO .. ZERO + 9

\* A decimal integer: an optional minus sign and one or more digits.
IsDecimal(f) ==
    LET digits == IF f # <<>> /\ f[1] = MINUS THEN Tail(f) ELSE f
    IN  /\ digits # <<>>
        /\ \A k \in DOMAIN digits : IsDigit(digits[k])

\* A line of n fields: decimal integers separated by single spaces, then
\* the terminator CR LF, and nothing else.
IsLineOf(s, n) ==
    /\ Len(s) >= 2
    /\ s[Len(s) - 1] = CR
    /\ s[Len(s)] = LF
    /\ LET fields == Fields(SubSeq(s, 1, Len(s) - 2))
       IN  /\ Len(fields) = n
           /\ \A k \in DOMAIN fields : IsDecimal(fields[k])

\* An onTimer invocation has run to its end and none is running.
Returned == hpc = "idle" /\ completed

(* ------------------------------ claims -------------------------------- *)

\* C1: with 1 or more channels, every onTimer invocation emits exactly one
\* line: when it has returned, the bytes it handed over are N decimal
\* fields separated by single spaces followed by the line terminator, and
\* while it runs no terminator has been handed over yet.
C1_OneLinePerInvocation ==
    /\ Returned => IsLineOf(line, number_of_channels)
    /\ hpc # "idle" => LF \notin Range(line)

C1_Witness ==
    /\ Returned
    /\ number_of_channels = 3
    /\ lastRead = [k \in 0 .. 2 |-> IF k = 1 THEN -3 ELSE 4095]

\* C2 as stated: with three channels reading 10, -3 and 255, the bytes of
\* one invocation are "10 -3 255" and a line feed, 10 bytes.
C2_LineFeedOnly ==
    (/\ Returned
     /\ number_of_channels = 3
     /\ lastRead = [k \in 0 .. 2 |-> CASE k = 0 -> 10 [] k = 1 -> -3
                                        [] OTHER -> 255])
    => line = <<49, 48, 32, 45, 51, 32, 50, 53, 53, 10>>

\* C2 amended: with three channels reading 10, -3 and 255, the bytes of one
\* invocation are "10 -3 255", a carriage return and a line feed.
C2_CarriageReturnLineFeed ==
    (/\ Returned
     /\ number_of_channels = 3
     /\ lastRead = [k \in 0 .. 2 |-> CASE k = 0 -> 10 [] k = 1 -> -3
                                        [] OTHER -> 255])
    => line = <<49, 48, 32, 45, 51, 32, 50, 53, 53, 13, 10>>

C2_Witness ==
    /\ Returned
    /\ number_of_channels = 3
    /\ lastRead = [k \in 0 .. 2 |-> CASE k = 0 -> 10 [] k = 1 -> -3
                                       [] OTHER -> 255]
    /\ Len(line) = 11

\* C3: with exactly one channel no space is ever handed over, and the line
\* of a finished invocation is one decimal value directly followed by the
\* terminator.
C3_SingleChannelNoSpace ==
    number_of_channels = 1 =>
        /\ SP \notin Range(line)
        /\ Returned =>
              /\ Len(line) >= 3
              /\ IsDecimal(SubSeq(line, 1, Len(line) - 2))
              /\ SubSeq(line, Len(line) - 1, Len(line)) = <<CR, LF>>

C3_Witness ==
    /\ Returned
    /\ number_of_channels = 1
    /\ lastRead[0] = -3
    /\ Len(line) = 4

\* C4 as stated: a build with an empty channel list never has its alarm
\* armed and never runs onTimer.
C4_EmptyListRejected ==
    number_of_channels = 0 =>
        /\ ~timer.armed
        /\ hpc = "idle"
        /\ line = <<>>

\* C5 as stated: a build whose interval is not positive, or whose buffer
\* size differs from the channel count, never has its alarm armed.
C5_BadConfigRejected ==
    (\/ MICROSECONDS_BETWEEN_SAMPLES <= 0
     \/ Slots(sensorValue) # number_of_channels)
    => ~timer.armed

\* C6: in every state the sample buffer has as many slots as the channel
\* list has entries, which is number_of_channels.
C6_BufferSizeIsChannelCount ==
    /\ Slots(sensorValue) = Slots(channels)
    /\ Slots(sensorValue) = number_of_channels

C6_Witness ==
    /\ completed
    /\ number_of_channels = 3
    /\ hpc = "read"
    /\ i = 2
    /\ sensorValue[0] # lastRead[2]

\* C8: an invocation in which every channel returned the value it returned
\* in the invocation before hands over the same bytes as that invocation.
C8_SameReadingsSameLine ==
    (hpc = "idle" /\ steady) => line = prevLine

C8_Witness ==
    /\ hpc = "idle"
    /\ steady
    /\ number_of_channels = 2
    /\ lastRead = [k \in 0 .. 1 |-> IF k = 0 THEN 255 ELSE -3]
    /\ Len(line) = 8

\* The spec's throughput constraint: the rate exceeds the sampling
\* frequency times N times 8 times 7, the frequency being TimerFrequency
\* over the interval (both sides divided by 100).
ThroughputConstraint ==
    (BAUDRATE \div 100) * MICROSECONDS_BETWEEN_SAMPLES
        > number_of_channels * 8 * 7 * (TimerFrequency \div 100)

\* The longest decimal text of a reading, in bytes.
LongestField ==
    LET lens == {Len(PrintInt(r)) : r \in Readings}
    IN  CHOOSE m \in lens : \A l \in lens : l <= m

\* The longest line: N fields, N - 1 spaces, CR and LF.
LongestLine == number_of_channels * (LongestField + 1) + 1

\* Reading the N channels and then transmitting the longest line takes
\* less than one sampling period.
LineFits ==
    number_of_channels * Ticks(analogReadTime) + LongestLine * ByteTime
        < Period

\* An alarm is due at this instant.
AlarmDue == timer.armed /\ toAlarm = 0 /\ pc # "setup"

\* No alarm was dropped or delayed, and an alarm that is due finds the
\* handler returned and the transmit queue empty.
KeepsUp ==
    /\ ~late
    /\ ~missed
    /\ Len(txq) <= TxCapacity
    /\ AlarmDue => (hpc = "idle" /\ ~irqPending /\ txq = <<>>)

\* C7 as stated: with a 1000 microsecond interval and a rate below the
\* throughput constraint, once an alarm has been delayed or dropped the
\* program holds a non-zero record of it (new_sample is its only variable
\* that is neither configuration nor sample), and every line is whole.
C7_SaturationObservable ==
    (MICROSECONDS_BETWEEN_SAMPLES = 1000 /\ ~ThroughputConstraint)
    => /\ (late \/ missed) => new_sample # 0
       /\ Returned => IsLineOf(line, number_of_channels)

\* C9 as stated: when the throughput constraint holds, every line is
\* transmitted before the next alarm and no alarm is dropped or delayed.
C9_ConstraintSuffices == ThroughputConstraint => KeepsUp

\* C9 amended: when the throughput constraint holds and, besides, reading
\* the channels and transmitting the longest line (5N + 1 bytes of 10 bit
\* times) take less than one period, every line is transmitted before the
\* next alarm, no alarm is dropped or delayed and the queue stays within
\* its capacity.
C9_LineFitsSuffices == (ThroughputConstraint /\ LineFits) => KeepsUp

C9_Witness ==
    /\ LineFits
    /\ AlarmDue
    /\ completed
    /\ number_of_channels = 2
    /\ MICROSECONDS_BETWEEN_SAMPLES = 1000
    /\ lastRead = [k \in 0 .. 1 |-> 4095]
    /\ Len(line) = 11

\* C10: after setup the alarm stays armed and self-reloading for ever, the
\* handler is entered only by consuming a latched alarm, one invocation
\* per alarm, every latched alarm is served, and the handler runs
\* infinitely often.
C10_TriggerRunsForever ==
    /\ [](pc # "setup" =>
            timer.armed /\ timer.autoreload /\ timer.isr = "onTimer")
    /\ [][(hpc = "idle" /\ hpc' # "idle") =>
            (irqPending /\ ~irqPending')]_vars
    /\ (irqPending ~> (hpc = "read" /\ i = 0))
    /\ []<>(hpc = "read" /\ i = 0)
    /\ []<>Returned

C10_Witness ==
    /\ completed
    /\ timer.armed
    /\ number_of_channels = 2
    /\ hpc = "read"
    /\ i = 0
    /\ ~late

\* The handler is inside a print call.
Writing == hpc \in {"val", "sep", "last", "eol"}

\* C11: the bytes the transport accepts are whole lines one after the
\* other.  Every byte it accepts is the next byte of the running
\* invocation's line, a new line is begun only when the line before is
\* whole, and the queue gives its bytes to the wire in the order it took
\* them.
C11_WholeLinesInOrder ==
    [][/\ Len(txq') > Len(txq) =>
            /\ Writing
            /\ txq' = Append(txq, Head(out))
            /\ line' = Append(line, Head(out))
       /\ line' # line =>
            \/ Len(txq') > Len(txq)
            \/ /\ line' = <<>>
               /\ completed => IsLineOf(line, number_of_channels)
               /\ ~completed => line = <<>>
       /\ Len(txq') < Len(txq) => txq' = Tail(txq)]_vars

C11_Witness ==
    /\ completed
    /\ number_of_channels = 2
    /\ hpc = "val"
    /\ irqPending
    /\ Len(txq) = 2
    /\ txq[1] = LF
    /\ line = <<txq[2]>>

\* C12: the main context leaves the sampler alone.  A step of setup or of
\* loop changes neither the sample buffer nor the channel list nor the
\* handler's state nor the transmit queue, sensorValue changes only in a
\* read step of onTimer, and channels and number_of_channels never change.
C12_MainLeavesSamplerAlone ==
    [][/\ pc' # pc =>
            UNCHANGED <<sensorValue, channels, number_of_channels, hpc, i,
                        out, line, txq, irqPending>>
       /\ sensorValue' # sensorValue => hpc = "read"
       /\ UNCHANGED <<channels, number_of_channels>>]_vars

C12_Witness ==
    /\ pc = "delay"
    /\ completed
    /\ number_of_channels = 2
    /\ sensorValue = [k \in 0 .. 1 |-> IF k = 0 THEN 4095 ELSE -3]

\* The value of a decimal text: digits most significant first, after an
\* optional minus sign.
RECURSIVE DigitsValue(_)
DigitsValue(d) ==
    IF d = <<>> THEN 0
    ELSE 10 * DigitsValue(SubSeq(d, 1, Len(d) - 1)) + (d[Len(d)] - ZERO)

DecimalValue(f) ==
    IF f # <<>> /\ f[1] = MINUS THEN 0 - DigitsValue(Tail(f))
    ELSE DigitsValue(f)

\* C13: in an invocation the k-th analogRead is of channels[k] and its
\* value is what sensorValue[k] holds from then on, all N reads are done
\* before the first byte is handed over, field k of the line is the value
\* read from channels[k], and the invocation has returned only when the
\* line's terminator has been accepted.
C13_ReadThenPrintInOrder ==
    /\ hpc = "read" => (Len(reads) = i /\ line = <<>>)
    /\ (Writing \/ line # <<>>) => Len(reads) = number_of_channels
    /\ \A k \in DOMAIN reads :
          /\ reads[k].pin = channels[k - 1]
          /\ sensorValue[k - 1] = reads[k].value
    /\ Returned =>
          /\ Len(line) >= 2
          /\ line[Len(line)] = LF
          /\ LET fields == Fields(SubSeq(line, 1, Len(line) - 2))
             IN  /\ Len(fields) = Len(reads)
                 /\ \A k \in DOMAIN fields :
                       DecimalValue(fields[k]) = reads[k].value
    /\ (Writing /\ line # <<>>) => line[Len(line)] # LF

C13_Witness ==
    /\ Returned
    /\ number_of_channels = 3
    /\ reads = <<[pin |-> 2, value |-> 255], [pin |-> 15, value |-> -3],
                 [pin |-> 13, value |-> 4095]>>

\* The handler is inside a print call and the transmit queue is full.
Blocked == Writing /\ Len(txq) >= TxCapacity

\* C14: while the handler runs, and so while it is blocked on a full
\* queue, the main context takes no step and the handler is not entered
\* again; a blocked handler does not move until the queue has given a byte
\* to the wire; and an alarm that comes while the handler runs is latched
\* (delayed) or merged into the latched one (dropped), the running
\* invocation going on undisturbed.
C14_BlockedHandlerHoldsProcessor ==
    [][/\ hpc # "idle" => pc' = pc
       /\ hpc # "idle" => (line' = line \/ line' = Append(line, Head(out)))
       /\ (irqPending /\ ~irqPending') => hpc = "idle"
       /\ Blocked => UNCHANGED <<hpc, i, out, pc, line>>
       /\ (hpc # "idle" /\ ~irqPending /\ irqPending') =>
            (late' /\ UNCHANGED <<hpc, i, out, line, sensorValue>>)
       /\ (irqPending /\ missed' # missed) =>
            (irqPending' /\ UNCHANGED <<hpc, i, out, line, sensorValue>>)]_vars

C14_Witness ==
    /\ Blocked
    /\ irqPending
    /\ missed
    /\ pc = "delay"
    /\ number_of_channels = 2
    /\ hpc = "last"

\* C15 as stated: for the shipped build of one channel, 115200 baud and
\* 100000 microseconds, BAUDRATE is larger than
\* MICROSECONDS_BETWEEN_SAMPLES * (number of channels) * 8 * 7, the
\* inequality of the configuration comment.
C15_CommentInequality ==
    (/\ number_of_channels = 1
     /\ BAUDRATE = ShippedBaudrate
     /\ MICROSECONDS_BETWEEN_SAMPLES = ShippedInterval)
    => BAUDRATE > MICROSECONDS_BETWEEN_SAMPLES * number_of_channels * 8 * 7

\* The build is one of the shipped ones.
IsShipped ==
    <<number_of_channels, BAUDRATE, MICROSECONDS_BETWEEN_SAMPLES>>
        \in ShippedBuilds

\* C16: every shipped build satisfies the throughput constraint, its rate
\* exceeding the sampling frequency (TimerFrequency over the alarm period)
\* times N times 8 times 7.
C16_ShippedBuildsMeetConstraint == IsShipped => ThroughputConstraint

C16_Witness ==
    /\ IsShipped
    /\ Returned
    /\ number_of_channels = 4
    /\ BAUDRATE = 921600
    /\ timer.alarm_value = 1000

\* onTimer is sampling or printing.
Sending == hpc = "read" \/ Writing

\* C17: in the start/stop build sending is off at startup and follows the
\* last command serialEvent has read.  Every invocation of onTimer starts
\* with the drain, which reads the pending bytes oldest first, 's' setting
\* SendData, 'e' clearing it, any other byte leaving it alone, and ends
\* only when no byte is pending; the invocation goes on to sample and print
\* exactly when SendData is set after the drain.  So no byte of a line is
\* handed to the transport unless the last command read is an 's'.
C17_SendingFollowsCommands ==
    /\ [](/\ SendData = (lastCmd = "s")
          /\ (Sending \/ line # <<>>) => lastCmd = "s"
          /\ hpc \in {"drain", "test"} => line = <<>>)
    /\ [][/\ (hpc = "idle" /\ hpc' # "idle") => hpc' = "drain"
          /\ Len(rxq') < Len(rxq) =>
               /\ hpc = "drain"
               /\ rxq' = Tail(rxq)
               /\ Head(rxq) = CharS => SendData'
               /\ Head(rxq) = CharE => ~SendData'
               /\ Head(rxq) \notin {CharS, CharE} => SendData' = SendData
          /\ SendData' # SendData => Len(rxq') < Len(rxq)
          /\ Len(rxq') > Len(rxq) => SubSeq(rxq', 1, Len(rxq)) = rxq
          /\ (hpc = "drain" /\ hpc' # "drain") => (rxq = <<>> /\ hpc' = "test")
          /\ (hpc = "test" /\ hpc' # "test") =>
               hpc' = IF SendData THEN "read" ELSE "idle"
          /\ Len(txq') > Len(txq) => lastCmd = "s"]_vars

\* A line has been sent after an 's', and an 'e' followed by an 's' wait
\* for the next invocation.
C17_Witness ==
    /\ Returned
    /\ lastCmd = "s"
    /\ IsLineOf(line, 1)
    /\ rxq = <<CharE, CharS>>

\* C18 as stated, its last part: whenever an invocation of onTimer returns,
\* no received byte is pending.
C18_InputEmptyAtReturn ==
    [][(hpc # "idle" /\ hpc' = "idle") => rxq' = <<>>]_vars

\* C18: in the start/stop build an invocation that finds SendData clear
\* after the drain returns at once: from its entry to its return it reads no
\* channel, changes no slot of sensorValue and hands no byte to the
\* transport.  No byte is pending when the drain ends; a byte that arrives
\* later in the invocation is read by no step of it.
C18_IdleInvocationTouchesNothing ==
    [][/\ hpc' \in {"drain", "test"} =>
            /\ UNCHANGED <<sensorValue, lastRead, channels>>
            /\ reads' = <<>> /\ line' = <<>> /\ out' = <<>>
            /\ Len(txq') <= Len(txq)
       /\ (hpc = "test" /\ ~SendData) =>
            /\ hpc' \in {"test", "idle"}
            /\ UNCHANGED <<sensorValue, lastRead, reads, line, out>>
            /\ Len(txq') <= Len(txq)
       /\ (hpc = "drain" /\ hpc' # "drain") => (rxq = <<>> /\ rxq' = <<>>)
       /\ (hpc # "drain" /\ rxq # <<>>) => SubSeq(rxq', 1, Len(rxq)) = rxq
      ]_vars

\* After a line of an earlier invocation, an invocation has read an 'e' and
\* returned without a line; the buffer still holds the earlier reading, and
\* a byte that came after the drain is pending.
C18_Witness ==
    /\ hpc = "idle"
    /\ ~irqPending
    /\ completed
    /\ lastCmd = "e"
    /\ line = <<>>
    /\ reads = <<>>
    /\ sensorValue[0] = 4095
    /\ rxq = <<120>>

====
